---------------------------- MODULE Spec2Model ----------------------------
(***************************************************************************)
(* socket.io-parser (yieldable-json variant): Encoder and Decoder of       *)
(* src/index.js.                                                           *)
(*                                                                         *)
(* A JavaScript string is a sequence of one-character strings; charAt     *)
(* outside the string is the empty string "".  A JavaScript value is a    *)
(* record tagged by "kind".  Indices i are the code's 0-based indices.    *)
(***************************************************************************)
EXTENDS Integers, Sequences, FiniteSets

VARIABLES
    calls,      \* Decoder.add calls, in call order: the async frame of each
    listeners,  \* listeners registered for 'decoded' on the Decoder (Emitter)
    notified,   \* <<listener, call>>: listener was invoked with call's packet
    destroyed,  \* destroy() has been called on the Decoder
    encodes     \* Encoder.encode calls, in call order

vars == <<calls, listeners, notified, destroyed, encodes>>

(***************************************************************************)
(* Bounds of the model.                                                    *)
(***************************************************************************)
MaxLen == 3     \* every frame over ScanAlphabet up to this length is decoded
MaxCalls == 2   \* add calls in flight on one Decoder (concurrent spec)

(***************************************************************************)
(* Packet types, exports.CONNECT .. exports.ERROR, and exports.types.      *)
(***************************************************************************)
CONNECT == 0
DISCONNECT == 1
EVENT == 2
ACK == 3
ERROR == 4
types == <<"CONNECT", "DISCONNECT", "EVENT", "ACK", "ERROR">>

\* The number NaN (Number("x")); every other number of the model is >= 0.
NaN == -1

(***************************************************************************)
(* JavaScript values.                                                      *)
(***************************************************************************)
Undefined == [kind |-> "undefined"]
JSNull == [kind |-> "null"]
JSTrue == [kind |-> "true"]
JSFalse == [kind |-> "false"]
JSNumber(n) == [kind |-> "number", val |-> n]
JSString(cs) == [kind |-> "string", val |-> cs]
JSArray(es) == [kind |-> "array", val |-> es]
\* The empty object {}.
JSObject == [kind |-> "object"]
\* An object that refers to itself: JSON.stringify throws on it.
JSCyclic == [kind |-> "cyclic"]

\* `null != x` / `null == x`: true of null and undefined only.
IsNullish(x) == x = Undefined \/ x = JSNull

\* ToBoolean of a string or nullish value (`packet.nsp && ...`).
Truthy(x) ==
    /\ ~IsNullish(x)
    /\ x.kind = "string" => x.val # <<>>

\* isArray(x)
isArray(x) == x.kind = "array"

(***************************************************************************)
(* Characters and numeric conversion.                                      *)
(***************************************************************************)
Digits == {"0", "1", "2", "3", "4", "5", "6", "7", "8", "9"}

\* StrWhiteSpaceChar of the alphabet: Number() trims it.
WhiteSpace == {" "}

DigitValue(c) ==
    CASE c = "0" -> 0 [] c = "1" -> 1 [] c = "2" -> 2 [] c = "3" -> 3
      [] c = "4" -> 4 [] c = "5" -> 5 [] c = "6" -> 6 [] c = "7" -> 7
      [] c = "8" -> 8 [] c = "9" -> 9

DigitChar(d) ==
    CASE d = 0 -> "0" [] d = 1 -> "1" [] d = 2 -> "2" [] d = 3 -> "3"
      [] d = 4 -> "4" [] d = 5 -> "5" [] d = 6 -> "6" [] d = 7 -> "7"
      [] d = 8 -> "8" [] d = 9 -> "9"

\* s.charAt(i), i 0-based: "" outside the string.
charAt(s, i) == IF i >= 0 /\ i < Len(s) THEN s[i + 1] ELSE ""

\* s.substr(i)
substr(s, i) == IF i >= Len(s) THEN <<>> ELSE SubSeq(s, i + 1, Len(s))

\* s + c for a charAt result c: appending "" appends nothing.
AppendChar(s, c) == IF c = "" THEN s ELSE Append(s, c)

RECURSIVE TrimLeft(_)
TrimLeft(s) ==
    IF s # <<>> /\ Head(s) \in WhiteSpace THEN TrimLeft(Tail(s)) ELSE s

RECURSIVE TrimRight(_)
TrimRight(s) ==
    IF s # <<>> /\ s[Len(s)] \in WhiteSpace
    THEN TrimRight(SubSeq(s, 1, Len(s) - 1))
    ELSE s

RECURSIVE DecimalValue(_)
DecimalValue(s) ==
    IF s = <<>> THEN 0
    ELSE 10 * DecimalValue(SubSeq(s, 1, Len(s) - 1)) + DigitValue(s[Len(s)])

\* Number(s) for a string s of decimal digits and white space: white space
\* is trimmed, the empty string is 0, a digit string is its value, and
\* anything else is NaN.  A string with any other character is NaN.
Number(s) ==
    LET t == TrimRight(TrimLeft(s)) IN
    IF \A k \in 1..Len(t) : t[k] \in Digits THEN DecimalValue(t) ELSE NaN

\* Number(c) for a charAt result c ("" or one character).
NumberOfChar(c) == IF c = "" THEN 0 ELSE Number(<<c>>)

\* `Number(c) == c`: the string c is converted back to a number, so the
\* comparison fails only when Number(c) is NaN.
LooksNumeric(c) == NumberOfChar(c) # NaN

RECURSIVE DecimalDigits(_)
DecimalDigits(n) ==
    IF n < 10 THEN <<DigitChar(n)>>
    ELSE Append(DecimalDigits(n \div 10), DigitChar(n % 10))

\* '' + n
NumberToString(n) == IF n = NaN THEN <<"N", "a", "N">> ELSE DecimalDigits(n)


(***************************************************************************)
(* JSON text of the model's alphabet: white space, [ ] , { } " digits, e   *)
(* and letters.  There is no ':' '-' '.' '\' in the alphabet, so the only  *)
(* well-formed object is {}, numbers are non-negative integers with an     *)
(* optional exponent, and strings have no escapes.                         *)
(***************************************************************************)
JSONWhiteSpace == {" "}

ParseFail == [ok |-> FALSE, val |-> Undefined, pos |-> 0]
ParseOk(v, p) == [ok |-> TRUE, val |-> v, pos |-> p]

\* s has the characters of word w at 1-based position p.
HasWord(s, p, w) ==
    /\ p + Len(w) - 1 <= Len(s)
    /\ SubSeq(s, p, p + Len(w) - 1) = w

RECURSIVE SkipWs(_, _)
SkipWs(s, p) ==
    IF p <= Len(s) /\ s[p] \in JSONWhiteSpace THEN SkipWs(s, p + 1) ELSE p

\* First position >= p that holds no digit.
RECURSIVE SkipDigits(_, _)
SkipDigits(s, p) ==
    IF p <= Len(s) /\ s[p] \in Digits THEN SkipDigits(s, p + 1) ELSE p

RECURSIVE Pow10(_)
Pow10(n) == IF n = 0 THEN 1 ELSE 10 * Pow10(n - 1)

\* A JSON number at p (s[p] is a digit): 0 or a digit string without a
\* leading zero, then an optional exponent e<digits>.
ParseNumber(s, p) ==
    LET q == IF s[p] = "0" THEN p + 1 ELSE SkipDigits(s, p)
        int == DecimalValue(SubSeq(s, p, q - 1))
    IN  IF q <= Len(s) /\ s[q] = "e"
        THEN LET r == SkipDigits(s, q + 1) IN
             IF r = q + 1 THEN ParseFail
             ELSE ParseOk(JSNumber(int * Pow10(DecimalValue(SubSeq(s, q + 1, r - 1)))), r)
        ELSE ParseOk(JSNumber(int), q)

\* First position >= p that holds a double quote, or Len(s) + 1.
RECURSIVE FindQuote(_, _)
FindQuote(s, p) ==
    IF p <= Len(s) /\ s[p] # "\"" THEN FindQuote(s, p + 1) ELSE p

\* A JSON string at p (s[p] is the opening quote).
ParseString(s, p) ==
    LET q == FindQuote(s, p + 1) IN
    IF q > Len(s) THEN ParseFail
    ELSE ParseOk(JSString(SubSeq(s, p + 1, q - 1)), q + 1)

RECURSIVE ParseValue(_, _)
RECURSIVE ParseElements(_, _, _)

\* The elements of an array after '[' or ',': value, then ',' or ']'.
ParseElements(s, p, acc) ==
    LET r == ParseValue(s, p) IN
    IF ~r.ok THEN ParseFail
    ELSE LET q == SkipWs(s, r.pos) IN
         IF q > Len(s) THEN ParseFail
         ELSE IF s[q] = "," THEN ParseElements(s, q + 1, Append(acc, r.val))
         ELSE IF s[q] = "]" THEN ParseOk(JSArray(Append(acc, r.val)), q + 1)
         ELSE ParseFail

\* A JSON value at or after p, leading white space skipped.
ParseValue(s, p) ==
    LET q == SkipWs(s, p) IN
    IF q > Len(s) THEN ParseFail
    ELSE IF s[q] = "[" THEN
        LET e == SkipWs(s, q + 1) IN
        IF e <= Len(s) /\ s[e] = "]" THEN ParseOk(JSArray(<<>>), e + 1)
        ELSE ParseElements(s, q + 1, <<>>)
    ELSE IF s[q] = "{" THEN
        LET e == SkipWs(s, q + 1) IN
        IF e <= Len(s) /\ s[e] = "}" THEN ParseOk(JSObject, e + 1)
        ELSE ParseFail
    ELSE IF s[q] = "\"" THEN ParseString(s, q)
    ELSE IF s[q] \in Digits THEN ParseNumber(s, q)
    ELSE IF HasWord(s, q, <<"t", "r", "u", "e">>) THEN ParseOk(JSTrue, q + 4)
    ELSE IF HasWord(s, q, <<"f", "a", "l", "s", "e">>) THEN ParseOk(JSFalse, q + 5)
    ELSE IF HasWord(s, q, <<"n", "u", "l", "l">>) THEN ParseOk(JSNull, q + 4)
    ELSE ParseFail

\* JSON parse of the whole text: a value, then only white space.
JSONParse(s) ==
    LET r == ParseValue(s, 1) IN
    IF r.ok /\ SkipWs(s, r.pos) = Len(s) + 1 THEN r ELSE ParseFail

\* Decoder._tryParse: the promise resolves to the parsed value, or to
\* false when parsing fails.
tryParse(encodedData) ==
    LET r == JSONParse(encodedData) IN
    IF r.ok THEN r.val ELSE JSFalse

\* JSON.stringify throws on v.
RECURSIVE Throws(_)
Throws(v) ==
    \/ v = JSCyclic
    \/ v.kind = "array" /\ \E k \in 1..Len(v.val) : Throws(v.val[k])

RECURSIVE JSONText(_)
RECURSIVE JoinTexts(_)
JoinTexts(es) ==
    IF es = <<>> THEN <<>>
    ELSE IF Len(es) = 1 THEN JSONText(es[1])
    ELSE JSONText(es[1]) \o <<",">> \o JoinTexts(Tail(es))

\* JSON.stringify(v) of a value it does not throw on.
JSONText(v) ==
    CASE v.kind = "null" -> <<"n", "u", "l", "l">>
      [] v.kind = "true" -> <<"t", "r", "u", "e">>
      [] v.kind = "false" -> <<"f", "a", "l", "s", "e">>
      [] v.kind = "number" -> NumberToString(v.val)
      [] v.kind = "string" -> <<"\"">> \o v.val \o <<"\"">>
      [] v.kind = "array" -> <<"[">> \o JoinTexts(v.val) \o <<"]">>
      [] v.kind = "object" -> <<"{", "}">>

\* Encoder._tryStringify: the text, or false (ok = FALSE) when
\* JSON.stringify throws.
tryStringify(object) ==
    IF Throws(object) THEN [ok |-> FALSE, text |-> <<>>]
    ELSE [ok |-> TRUE, text |-> JSONText(object)]


(***************************************************************************)
(* Encoder.                                                                *)
(***************************************************************************)
\* ERROR_PACKET = exports.ERROR + '"encode error"'
ERROR_PACKET ==
    NumberToString(ERROR) \o <<"\"", "e", "n", "c", "o", "d", "e", " ", "e", "r", "r", "o", "r", "\"">>

\* Mutant of encodePacket: the id is tested for truth (`if (packet.id)`),
\* so id 0 is not written.
encodePacketTruthyId(packet) ==
    LET first == NumberToString(packet.type)
        withNsp ==
            IF Truthy(packet.nsp) /\ packet.nsp.val # <<"/">>
            THEN first \o packet.nsp.val \o <<",">>
            ELSE first
        withId ==
            IF ~IsNullish(packet.id) /\ packet.id.val # 0
            THEN withNsp \o NumberToString(packet.id.val)
            ELSE withNsp
    IN  IF ~IsNullish(packet.data)
        THEN LET payload == tryStringify(packet.data) IN
             IF payload.ok THEN withId \o payload.text ELSE ERROR_PACKET
        ELSE withId

\* Mutant of encodePacket: the result of _tryStringify is appended without
\* the `payload !== false` test.
encodePacketUnchecked(packet) ==
    LET first == NumberToString(packet.type)
        withNsp ==
            IF Truthy(packet.nsp) /\ packet.nsp.val # <<"/">>
            THEN first \o packet.nsp.val \o <<",">>
            ELSE first
        withId ==
            IF ~IsNullish(packet.id)
            THEN withNsp \o NumberToString(packet.id.val)
            ELSE withNsp
    IN  IF ~IsNullish(packet.data)
        THEN LET payload == tryStringify(packet.data) IN
             IF payload.ok THEN withId \o payload.text
             ELSE withId \o <<"f", "a", "l", "s", "e">>
        ELSE withId

\* Mutant of encodePacket: the namespace is written whenever there is one,
\* the default "/" included.
encodePacketWritesDefault(packet) ==
    LET first == NumberToString(packet.type)
        withNsp ==
            IF Truthy(packet.nsp)
            THEN first \o packet.nsp.val \o <<",">>
            ELSE first
        withId ==
            IF ~IsNullish(packet.id)
            THEN withNsp \o NumberToString(packet.id.val)
            ELSE withNsp
    IN  IF ~IsNullish(packet.data)
        THEN LET payload == tryStringify(packet.data) IN
             IF payload.ok THEN withId \o payload.text ELSE ERROR_PACKET
        ELSE withId

\* Encoder._encodePacket: the text the returned promise resolves to.
encodePacket(packet) ==
    LET first == NumberToString(packet.type)
        withNsp ==
            IF Truthy(packet.nsp) /\ packet.nsp.val # <<"/">>
            THEN first \o packet.nsp.val \o <<",">>
            ELSE first
        withId ==
            IF ~IsNullish(packet.id)
            THEN withNsp \o NumberToString(packet.id.val)
            ELSE withNsp
    IN  IF ~IsNullish(packet.data)
        THEN LET payload == tryStringify(packet.data) IN
             IF payload.ok THEN withId \o payload.text ELSE ERROR_PACKET
        ELSE withId

\* Encoder.encode(packet, callback), up to its return: _encodePacket has no
\* await, so its promise is resolved, and the then-callback is queued.
Encode(packet) ==
    /\ encodes' = Append(encodes,
           [packet |-> packet, encodedPacket |-> encodePacket(packet),
            pc |-> "resolved", callbacks |-> 0, frames |-> <<>>])
    /\ UNCHANGED <<calls, listeners, notified, destroyed>>

\* The queued then-callback of encode call k: callback([encodedPacket]).
EncodeCallback(k) ==
    /\ k \in 1..Len(encodes)
    /\ encodes[k].pc = "resolved"
    /\ encodes' = [encodes EXCEPT ![k].pc = "done",
                                  ![k].callbacks = @ + 1,
                                  ![k].frames = <<encodes[k].encodedPacket>>]
    /\ UNCHANGED <<calls, listeners, notified, destroyed>>

(***************************************************************************)
(* Decoder.                                                                *)
(***************************************************************************)
\* buildError(msg)
buildError(msg) ==
    [type |-> ERROR, nsp |-> Undefined, id |-> Undefined,
     data |-> JSString(<<"p", "a", "r", "s", "e", "r", " ", "e", "r", "r", "o", "r", ":", " ">> \o msg)]

UnknownPacketType ==
    <<"u", "n", "k", "n", "o", "w", "n", " ", "p", "a", "c", "k", "e", "t", " ", "t", "y", "p", "e", " ">>

InvalidPayload ==
    <<"i", "n", "v", "a", "l", "i", "d", " ", "p", "a", "y", "l", "o", "a", "d">>

\* Mutant of ScanNsp: steps back at the comma, as the id loop does at a
\* non-digit, so the comma is left to the next stage.
RECURSIVE ScanNspLeavesComma(_, _, _)
ScanNspLeavesComma(encodedPacket, i, nsp) ==
    LET j == i + 1
        c == charAt(encodedPacket, j)
    IN  IF c = "," THEN [i |-> j - 1, nsp |-> nsp]
        ELSE IF j = Len(encodedPacket) THEN [i |-> j, nsp |-> AppendChar(nsp, c)]
        ELSE ScanNspLeavesComma(encodedPacket, j, AppendChar(nsp, c))

\* The namespace loop `while (++i)`: entered with i, the namespace read so far.
RECURSIVE ScanNsp(_, _, _)
ScanNsp(encodedPacket, i, nsp) ==
    LET j == i + 1
        c == charAt(encodedPacket, j)
    IN  IF c = "," THEN [i |-> j, nsp |-> nsp]
        ELSE IF j = Len(encodedPacket) THEN [i |-> j, nsp |-> AppendChar(nsp, c)]
        ELSE ScanNsp(encodedPacket, j, AppendChar(nsp, c))

\* The id loop `while (++i)`: entered with i, the id text read so far.
RECURSIVE ScanId(_, _, _)
ScanId(encodedPacket, i, id) ==
    LET j == i + 1
        c == charAt(encodedPacket, j)
    IN  IF ~LooksNumeric(c) THEN [i |-> j - 1, id |-> id]
        ELSE IF j = Len(encodedPacket) THEN [i |-> j, id |-> AppendChar(id, c)]
        ELSE ScanId(encodedPacket, j, AppendChar(id, c))

\* `look up namespace (if any)`: the namespace and i after it.
NamespaceStage(encodedPacket) ==
    IF charAt(encodedPacket, 1) = "/"
    THEN ScanNsp(encodedPacket, 0, <<>>)
    ELSE [i |-> 0, nsp |-> <<"/">>]

\* `look up id (if any)` from i: the id (undefined when there is none) and
\* i after it.
IdStage(encodedPacket, i) ==
    LET next == charAt(encodedPacket, i + 1) IN
    IF next # "" /\ LooksNumeric(next)
    THEN LET r == ScanId(encodedPacket, i, <<>>) IN
         [i |-> r.i, id |-> JSNumber(Number(r.id))]
    ELSE [i |-> i, id |-> Undefined]

\* Mutant of isPayloadValid: only EVENT and ACK payloads must be arrays.
isPayloadValidEventsOnly(type, payload) ==
    payload # JSFalse /\ (type \notin {EVENT, ACK} \/ isArray(payload))

\* payload !== false && (packet.type === exports.ERROR || isArray(payload))
isPayloadValid(type, payload) ==
    payload # JSFalse /\ (type = ERROR \/ isArray(payload))

\* null != exports.types[type]: type indexes the array of type names.
KnownType(type) == type \in 0..(Len(types) - 1)

\* Decoder._decodePacket up to its first await or its return: the frame of
\* the async call.  pc = "parsing": suspended in `await this._tryParse`;
\* pc = "resolved": returned, the promise holds result.  nspI is i at
\* `look up id`, i is i after `++i` at `look up json data`.
decodePacketSync(encodedPacket) ==
    LET type == NumberOfChar(charAt(encodedPacket, 0)) IN
    IF ~KnownType(type)
    THEN [encodedPacket |-> encodedPacket, nspI |-> 0, i |-> 0,
          packet |-> [type |-> type, nsp |-> Undefined, id |-> Undefined,
                      data |-> Undefined],
          pc |-> "resolved",
          result |-> buildError(UnknownPacketType \o NumberToString(type)),
          emits |-> 0]
    ELSE LET ns == NamespaceStage(encodedPacket)
             idr == IdStage(encodedPacket, ns.i)
             i == idr.i + 1
             packet == [type |-> type, nsp |-> JSString(ns.nsp),
                        id |-> idr.id, data |-> Undefined]
         IN  [encodedPacket |-> encodedPacket, nspI |-> ns.i, i |-> i,
              packet |-> packet,
              pc |-> IF charAt(encodedPacket, i) # "" THEN "parsing" ELSE "resolved",
              result |-> IF charAt(encodedPacket, i) # "" THEN Undefined ELSE packet,
              emits |-> 0]

\* Decoder._decodePacket after the await, for the suspended call r: the
\* call with its promise resolved.
decodePacketResume(r) ==
    LET payload == tryParse(substr(r.encodedPacket, r.i)) IN
    IF isPayloadValid(r.packet.type, payload)
    THEN [r EXCEPT !.pc = "resolved",
                   !.packet = [r.packet EXCEPT !.data = payload],
                   !.result = [r.packet EXCEPT !.data = payload]]
    ELSE [r EXCEPT !.pc = "resolved", !.result = buildError(InvalidPayload)]

\* Decoder._decodePacket run to completion on one frame alone: the packet
\* its promise resolves to.
decodePacket(encodedPacket) ==
    LET r == decodePacketSync(encodedPacket) IN
    IF r.pc = "parsing" THEN decodePacketResume(r).result ELSE r.result

\* Decoder.add(encodedPacket) with a string, up to its return: the call is
\* suspended in its parse, or its then-callback is queued.
Add(encodedPacket) ==
    /\ calls' = Append(calls, decodePacketSync(encodedPacket))
    /\ UNCHANGED <<listeners, notified, destroyed, encodes>>

\* Mutant of ParseDone: the scan position is kept on the Decoder, not in
\* the call, so the resumed call reads the position of the latest add.
ParseDoneSharedScan(c) ==
    /\ c \in 1..Len(calls)
    /\ calls[c].pc = "parsing"
    /\ calls' = [calls EXCEPT ![c] =
           decodePacketResume([calls[c] EXCEPT !.i = calls[Len(calls)].i])]
    /\ UNCHANGED <<listeners, notified, destroyed, encodes>>

\* yieldableJSON.parseAsync calls back for call c: _decodePacket resumes
\* and returns.
ParseDone(c) ==
    /\ c \in 1..Len(calls)
    /\ calls[c].pc = "parsing"
    /\ calls' = [calls EXCEPT ![c] = decodePacketResume(calls[c])]
    /\ UNCHANGED <<listeners, notified, destroyed, encodes>>

\* The queued then-callback of call c: this.emit('decoded', packet) invokes
\* every registered listener.
Emit(c) ==
    /\ c \in 1..Len(calls)
    /\ calls[c].pc = "resolved"
    /\ calls' = [calls EXCEPT ![c].pc = "emitted", ![c].emits = @ + 1]
    /\ notified' = notified \cup {<<l, c>> : l \in listeners}
    /\ UNCHANGED <<listeners, destroyed, encodes>>

\* Emitter.on('decoded', l)
On(l) ==
    /\ l \notin listeners
    /\ listeners' = listeners \cup {l}
    /\ UNCHANGED <<calls, notified, destroyed, encodes>>

\* Decoder.destroy(): the method body is empty.
Destroy ==
    /\ destroyed' = TRUE
    /\ UNCHANGED <<calls, listeners, notified, encodes>>


(***************************************************************************)
(* Inputs.                                                                 *)
(***************************************************************************)
ScanAlphabet == {"0", "2", "4", "7", " ", "/", ",", "[", "]"}

\* Every string over ScanAlphabet of length at most n.
AllStrings(n) == UNION {[1..k -> ScanAlphabet] : k \in 0..n}

TypeSegments ==
    { <<"0">>,
      <<"1">>,
      <<"2">>,
      <<"3">>,
      <<"4">>,
      <<"5">>,
      <<"9">>,
      <<"x">>,
      <<" ">> }

NamespaceSegments ==
    { <<>>,
      <<"/", ",">>,
      <<"/", "a", ",">>,
      <<"/", "a">> }

IdSegments ==
    { <<>>,
      <<" ">>,
      <<"0">>,
      <<"1", "2">>,
      <<"1", " ">>,
      <<"1", " ", "2">> }

PayloadSegments ==
    { <<>>,
      <<"[", "]">>,
      <<"[", "1", "]">>,
      <<"[", "\"", "a", "\"", ",", "[", "2", ",", " ", "3", "]", "]">>,
      <<"{", "}">>,
      <<"\"", "a", "\"">>,
      <<"t", "r", "u", "e">>,
      <<"f", "a", "l", "s", "e">>,
      <<"n", "u", "l", "l">>,
      <<"[">>,
      <<"x">>,
      <<"{", "a", "}">>,
      <<"[", "1", "e", "1", "]">>,
      <<"[", "]", " ">>,
      <<"[", ",", "]">> }

\* Frames to decode: every short string, and every concatenation of a type,
\* a namespace, an id and a payload segment, well-formed or not.
Frames ==
    AllStrings(MaxLen) \cup
    {t \o n \o d \o p : t \in TypeSegments, n \in NamespaceSegments,
                        d \in IdSegments, p \in PayloadSegments}

\* Frames of the concurrent specification.
ConcurrentFrames ==
    { <<"2">>,
      <<"5">>,
      <<"2", "[", "\"", "a", "\"", "]">>,
      <<"4", "{", "}">>,
      <<"2", "/", "a", ",", "1", "[", "1", "]">>,
      <<"0", " ", "x">> }

Listeners == {"l1", "l2"}

PacketNsps ==
    {Undefined} \cup {JSString(n) : n \in
        { <<>>,
          <<"/">>,
          <<"/", "a">>,
          <<"a">>,
          <<"/", "a", ",", "b">> }}

PacketIds == {Undefined, JSNull, JSNumber(0), JSNumber(7), JSNumber(45)}

PacketData ==
    { Undefined, JSNull, JSTrue, JSFalse, JSNumber(5), JSObject, JSCyclic,
      JSString(<<"a">>),
      JSArray(<<>>),
      JSArray(<<JSNumber(1)>>),
      JSArray(<<JSString(<<"a">>), JSArray(<<JSNumber(23), JSNull>>)>>),
      JSArray(<<JSString(<<"a">>), JSCyclic>>) }

\* {type: EVENT, nsp: "/admin", id: 456, data: ["project:delete", 123]}
ExamplePacket ==
    [type |-> EVENT, nsp |-> JSString(<<"/", "a", "d", "m", "i", "n">>), id |-> JSNumber(456),
     data |-> JSArray(<<JSString(<<"p", "r", "o", "j", "e", "c", "t", ":", "d", "e", "l", "e", "t", "e">>),
                        JSNumber(123)>>)]

\* Packets to encode.
Packets ==
    [type : {CONNECT, DISCONNECT, EVENT, ACK, ERROR}, nsp : PacketNsps,
     id : PacketIds, data : PacketData] \cup {ExamplePacket}

(***************************************************************************)
(* Specifications.                                                         *)
(***************************************************************************)
\* A new Decoder and a new Encoder.
Init ==
    /\ calls = <<>>
    /\ listeners = {}
    /\ notified = {}
    /\ destroyed = FALSE
    /\ encodes = <<>>

\* A new Decoder with one listener registered for 'decoded'.
InitListening ==
    /\ calls = <<>>
    /\ listeners = {"l1"}
    /\ notified = {}
    /\ destroyed = FALSE
    /\ encodes = <<>>

\* One Decoder, several add calls in flight, listeners and destroy().
Next ==
    \/ \E f \in ConcurrentFrames : Len(calls) < MaxCalls /\ Add(f)
    \/ \E c \in 1..Len(calls) : ParseDone(c)
    \/ \E c \in 1..Len(calls) : Emit(c)
    \/ \E l \in Listeners : On(l)
    \/ Destroy

Spec == Init /\ [][Next]_vars

\* One frame decoded.
NextDecode ==
    \/ \E f \in Frames : calls = <<>> /\ Add(f)
    \/ \E c \in 1..Len(calls) : ParseDone(c)
    \/ \E c \in 1..Len(calls) : Emit(c)

SpecDecode == InitListening /\ [][NextDecode]_vars

\* One packet encoded, and the frame its callback receives decoded.
NextCodec ==
    \/ \E p \in Packets : encodes = <<>> /\ Encode(p)
    \/ \E k \in 1..Len(encodes) : EncodeCallback(k)
    \/ \E k \in 1..Len(encodes) :
          /\ calls = <<>>
          /\ encodes[k].frames # <<>>
          /\ Add(encodes[k].frames[1])
    \/ \E c \in 1..Len(calls) : ParseDone(c)
    \/ \E c \in 1..Len(calls) : Emit(c)

SpecCodec == InitListening /\ [][NextCodec]_vars


(***************************************************************************)
(* Vocabulary of the properties.                                           *)
(***************************************************************************)
\* The promise of add call c is resolved.
Resolved(c) == calls[c].pc \in {"resolved", "emitted"}

\* A packet built by the scan (it has a namespace), not by buildError; an
\* unresolved promise holds no packet.
IsNormal(p) == p # Undefined /\ p.nsp # Undefined

ParserErrorPrefix ==
    <<"p", "a", "r", "s", "e", "r", " ", "e", "r", "r", "o", "r", ":", " ">>

InvalidPayloadPacket ==
    [type |-> 4, nsp |-> Undefined, id |-> Undefined,
     data |-> JSString(ParserErrorPrefix \o
         <<"i", "n", "v", "a", "l", "i", "d", " ", "p", "a", "y", "l", "o", "a", "d">>)]

\* p is the error packet "parser error: unknown packet type <value>".
IsUnknownTypePacket(p) ==
    LET head == ParserErrorPrefix \o
            <<"u", "n", "k", "n", "o", "w", "n", " ", "p", "a", "c", "k", "e", "t",
              " ", "t", "y", "p", "e", " ">>
    IN  /\ p.type = 4
        /\ p.nsp = Undefined /\ p.id = Undefined
        /\ p.data.kind = "string"
        /\ Len(p.data.val) > Len(head)
        /\ SubSeq(p.data.val, 1, Len(head)) = head

KnownTypeDigits == {"0", "1", "2", "3", "4"}

\* The frame of call c starts with the digit of a known type.
HasKnownTypeDigit(c) ==
    /\ calls[c].encodedPacket # <<>>
    /\ calls[c].encodedPacket[1] \in KnownTypeDigits

\* The payload segment of call c: the text left after type, namespace, id.
PayloadSegment(c) == substr(calls[c].encodedPacket, calls[c].i)

\* 0-based index of the first comma of s at or after index k, Len(s) if none.
RECURSIVE FirstComma(_, _)
FirstComma(s, k) ==
    IF k >= Len(s) \/ s[k + 1] = "," THEN k ELSE FirstComma(s, k + 1)

\* The maximal run of decimal digits of s from 0-based index k.
RECURSIVE DigitRun(_, _)
DigitRun(s, k) ==
    IF k < Len(s) /\ s[k + 1] \in Digits
    THEN <<s[k + 1]>> \o DigitRun(s, k + 1)
    ELSE <<>>

(***************************************************************************)
(* Properties of one decoded frame (SpecDecode).                           *)
(***************************************************************************)
\* C2: for a frame of a known type whose payload segment parses as a JSON
\* value v, the decoded packet is a normal packet with data = v exactly when
\* the type is ERROR (for every v, false included) or v is an array; in
\* every other case, and when the segment does not parse, it is the error
\* packet "parser error: invalid payload".
C2_PayloadShapeValidation ==
    \A c \in 1..Len(calls) :
        (Resolved(c) /\ KnownType(calls[c].packet.type) /\ PayloadSegment(c) # <<>>) =>
            LET r == JSONParse(PayloadSegment(c)) IN
            IF r.ok /\ (calls[c].packet.type = 4 \/ r.val.kind = "array")
            THEN /\ IsNormal(calls[c].result)
                 /\ calls[c].result.type = calls[c].packet.type
                 /\ calls[c].result.data = r.val
            ELSE calls[c].result = InvalidPayloadPacket

\* C3: a frame whose first character is not one of '0'..'4' decodes to the
\* error packet "parser error: unknown packet type <value>", and every
\* normal packet has the type given by the digit at position 0 of its frame.
C3_UnknownTypeRejected ==
    \A c \in 1..Len(calls) :
        Resolved(c) =>
            /\ (calls[c].encodedPacket # <<>> /\ ~HasKnownTypeDigit(c)) =>
                   IsUnknownTypePacket(calls[c].result)
            /\ IsNormal(calls[c].result) =>
                   /\ HasKnownTypeDigit(c)
                   /\ calls[c].result.type = DigitValue(calls[c].encodedPacket[1])

\* C4 as stated: a CONNECT or DISCONNECT frame whose payload segment is
\* well-formed JSON of any shape decodes to a normal packet of that type
\* with data equal to the parsed value.
C4_ConnectPayloadNotValidated ==
    \A c \in 1..Len(calls) :
        (/\ Resolved(c) /\ HasKnownTypeDigit(c)
         /\ calls[c].encodedPacket[1] \in {"0", "1"}
         /\ PayloadSegment(c) # <<>>
         /\ JSONParse(PayloadSegment(c)).ok) =>
            /\ IsNormal(calls[c].result)
            /\ calls[c].result.type = DigitValue(calls[c].encodedPacket[1])
            /\ calls[c].result.data = JSONParse(PayloadSegment(c)).val

\* C4 as amended: a CONNECT or DISCONNECT frame whose payload segment is
\* well-formed JSON decodes to a normal packet of that type with data equal
\* to the parsed value when the value is an array, and to the error packet
\* "parser error: invalid payload" when it is anything else.
C4_ConnectPayloadValidated ==
    \A c \in 1..Len(calls) :
        (/\ Resolved(c) /\ HasKnownTypeDigit(c)
         /\ calls[c].encodedPacket[1] \in {"0", "1"}
         /\ PayloadSegment(c) # <<>>
         /\ JSONParse(PayloadSegment(c)).ok) =>
            LET v == JSONParse(PayloadSegment(c)).val IN
            IF v.kind = "array"
            THEN /\ IsNormal(calls[c].result)
                 /\ calls[c].result.type = DigitValue(calls[c].encodedPacket[1])
                 /\ calls[c].result.data = v
            ELSE calls[c].result = InvalidPayloadPacket

\* C4 witness: a CONNECT frame with an object payload has been decoded, and
\* a listener was notified.
C4_Witness ==
    \E c \in 1..Len(calls) :
        /\ calls[c].pc = "emitted"
        /\ <<"l1", c>> \in notified
        /\ calls[c].encodedPacket = <<"0", "{", "}">>
        /\ calls[c].result = InvalidPayloadPacket

\* C9: for a frame of a known type, the packet has an id exactly when the
\* character at the scan position exists and is a decimal digit; the id is
\* the value of the maximal run of digits there, and the payload stage
\* reads the text from the first character after the run.
C9_IdStage ==
    \A c \in 1..Len(calls) :
        KnownType(calls[c].packet.type) =>
            LET s == calls[c].encodedPacket
                start == calls[c].nspI + 1
                run == DigitRun(s, start)
            IN  /\ (calls[c].packet.id # Undefined) <=> (charAt(s, start) \in Digits)
                /\ calls[c].packet.id # Undefined =>
                       calls[c].packet.id = JSNumber(DecimalValue(run))
                /\ PayloadSegment(c) = substr(s, start + Len(run))

\* C10: for a frame of a known type, when the character at position 1 is
\* '/', nsp is the text from position 1 up to the next comma (or to the end
\* of the frame) and the scan resumes right after that comma (or finds
\* nothing left); otherwise nsp is "/" and the scan starts at position 1.
C10_NamespaceStage ==
    \A c \in 1..Len(calls) :
        KnownType(calls[c].packet.type) =>
            LET s == calls[c].encodedPacket
                k == FirstComma(s, 1)
            IN  IF charAt(s, 1) = "/"
                THEN /\ calls[c].packet.nsp = JSString(SubSeq(s, 2, k))
                     /\ IsNormal(calls[c].result) =>
                            calls[c].result.nsp = JSString(SubSeq(s, 2, k))
                     /\ k < Len(s) => calls[c].nspI + 1 = k + 1
                     /\ k = Len(s) =>
                            /\ calls[c].nspI + 1 >= Len(s)
                            /\ calls[c].packet.id = Undefined
                            /\ Resolved(c) => calls[c].result.data = Undefined
                ELSE /\ calls[c].packet.nsp = JSString(<<"/">>)
                     /\ IsNormal(calls[c].result) =>
                            calls[c].result.nsp = JSString(<<"/">>)
                     /\ calls[c].nspI + 1 = 1

\* C10 witness: a frame with a namespace, a comma, an id and a payload has
\* been decoded to a normal packet.
C10_Witness ==
    \E c \in 1..Len(calls) :
        /\ calls[c].pc = "emitted"
        /\ calls[c].encodedPacket = <<"2", "/", "a", ",", "1", "2", "[", "1", "]">>
        /\ calls[c].result.nsp = JSString(<<"/", "a">>)
        /\ calls[c].result.id = JSNumber(12)
        /\ calls[c].result.data = JSArray(<<JSNumber(1)>>)


(***************************************************************************)
(* Properties of one packet encoded and decoded (SpecCodec).               *)
(***************************************************************************)
\* A field is present: neither undefined nor null.
Present(x) == ~IsNullish(x)

\* nsp names a namespace: a string that is not empty.
PresentNsp(x) == Present(x) /\ x # JSString(<<>>)

\* v is a JSON value: JSON.stringify gives its text.
RECURSIVE IsJSONValue(_)
IsJSONValue(v) ==
    /\ v.kind \in {"null", "true", "false", "number", "string", "array", "object"}
    /\ v.kind = "array" => \A k \in 1..Len(v.val) : IsJSONValue(v.val[k])

\* q equals p in every field present in p, an absent nsp read as "/".
EqualInPresentFields(q, p) ==
    /\ IsNormal(q)
    /\ q.type = p.type
    /\ q.nsp = IF PresentNsp(p.nsp) THEN p.nsp ELSE JSString(<<"/">>)
    /\ Present(p.id) => q.id = p.id
    /\ Present(p.data) => q.data = p.data

\* The call that decodes the frame of encode call k is call k.
Decoded(k) == k \in 1..Len(calls) /\ Resolved(k)

\* C1 as stated: for every packet with nsp "/", absent or a custom value,
\* id absent or a non-negative integer, and data absent or of a shape valid
\* for the type (an array for EVENT and ACK, any JSON value for ERROR,
\* CONNECT and DISCONNECT), decoding the encoded frame gives a packet equal
\* to it in every present field.
C1_RoundTrip ==
    \A k \in 1..Len(encodes) :
        LET p == encodes[k].packet IN
        (/\ Decoded(k)
         /\ Present(p.nsp) => PresentNsp(p.nsp)
         /\ Present(p.data) => IsJSONValue(p.data)
         /\ (Present(p.data) /\ p.type \in {EVENT, ACK}) => p.data.kind = "array") =>
            EqualInPresentFields(calls[k].result, p)

\* The namespace can be framed: it starts with '/' and has no comma.
FramableNsp(x) ==
    /\ x.kind = "string" /\ x.val # <<>>
    /\ x.val[1] = "/"
    /\ \A j \in 1..Len(x.val) : x.val[j] # ","

\* C1 as amended: for every packet with nsp absent, "/" or a custom value
\* that starts with '/' and holds no comma, id absent or a non-negative
\* integer written in decimal digits only (below 10^21), and data absent,
\* an array of JSON values (whatever the type) or, for ERROR only, a
\* string, an object, true or false, decoding the encoded frame gives a
\* packet equal to it in every present field; except that ERROR data false
\* comes back as the error packet "parser error: invalid payload", the
\* decoder reading the parsed value false as a failed parse (see C2).
C1_RoundTripFramable ==
    \A k \in 1..Len(encodes) :
        LET p == encodes[k].packet IN
        (/\ Decoded(k)
         /\ Present(p.nsp) => FramableNsp(p.nsp)
         /\ Present(p.data) =>
                /\ IsJSONValue(p.data)
                /\ \/ p.data.kind = "array"
                   \/ /\ p.type = ERROR
                      /\ p.data.kind \in {"string", "object", "true", "false"}) =>
            IF p.type = ERROR /\ p.data = JSFalse
            THEN calls[k].result = InvalidPayloadPacket
            ELSE EqualInPresentFields(calls[k].result, p)

\* C1 witness: an EVENT with a custom namespace, id 0 and array data has
\* been encoded, decoded and delivered to the listener unchanged.
C1_Witness ==
    /\ Len(encodes) = 1 /\ Len(calls) = 1
    /\ encodes[1].packet.type = EVENT
    /\ encodes[1].packet.nsp = JSString(<<"/", "a">>)
    /\ encodes[1].packet.id = JSNumber(0)
    /\ encodes[1].packet.data =
           JSArray(<<JSString(<<"a">>), JSArray(<<JSNumber(23), JSNull>>)>>)
    /\ calls[1].pc = "emitted" /\ <<"l1", 1>> \in notified
    /\ calls[1].result = encodes[1].packet

EncodeErrorFrame ==
    <<"4", "\"", "e", "n", "c", "o", "d", "e", " ", "e", "r", "r", "o", "r", "\"">>

\* C6: encode invokes the callback at most once, exactly once when the
\* call has completed, with a sequence of exactly one frame; when
\* serializing the data fails, that frame is 4"encode error" whatever the
\* type, nsp and id.
C6_EncodeNeverFails ==
    \A k \in 1..Len(encodes) :
        /\ encodes[k].callbacks <= 1
        /\ encodes[k].callbacks = 1 <=> encodes[k].pc = "done"
        /\ encodes[k].pc = "resolved" => encodes[k].frames = <<>>
        /\ encodes[k].pc = "done" =>
               /\ Len(encodes[k].frames) = 1
               /\ (Present(encodes[k].packet.data) /\ ~IsJSONValue(encodes[k].packet.data)) =>
                      encodes[k].frames[1] = EncodeErrorFrame

\* C6 witness: the callback has received the fallback frame for an EVENT
\* with a namespace, an id and self-referential data.
C6_Witness ==
    \E k \in 1..Len(encodes) :
        /\ encodes[k].pc = "done"
        /\ encodes[k].packet.type = EVENT
        /\ encodes[k].packet.nsp = JSString(<<"/", "a">>)
        /\ encodes[k].packet.id = JSNumber(7)
        /\ encodes[k].packet.data = JSCyclic
        /\ encodes[k].frames = <<EncodeErrorFrame>>

\* C7: for every packet whose data is absent or serializable, the frame is
\* the digit of type, then nsp and a comma exactly when nsp is present and
\* not "/", then the decimal digits of id exactly when id is not absent
\* (0 included), then the JSON text of data exactly when data is not absent.
C7_FrameLayout ==
    \A k \in 1..Len(encodes) :
        LET p == encodes[k].packet IN
        (Present(p.data) => IsJSONValue(p.data)) =>
            encodes[k].encodedPacket =
                <<DigitChar(p.type)>>
                \o (IF PresentNsp(p.nsp) /\ p.nsp # JSString(<<"/">>)
                    THEN p.nsp.val \o <<",">> ELSE <<>>)
                \o (IF Present(p.id) THEN DecimalDigits(p.id.val) ELSE <<>>)
                \o (IF Present(p.data) THEN JSONText(p.data) ELSE <<>>)

\* C7 witness: the callback has received 2/admin,456["project:delete",123]
\* for the packet of the example.
C7_Witness ==
    \E k \in 1..Len(encodes) :
        /\ encodes[k].pc = "done"
        /\ encodes[k].packet = ExamplePacket
        /\ encodes[k].frames =
               <<<<"2", "/", "a", "d", "m", "i", "n", ",", "4", "5", "6", "[", "\"", "p", "r", "o", "j", "e", "c", "t", ":", "d", "e", "l", "e", "t", "e", "\"", ",", "1", "2", "3", "]">>>>

(***************************************************************************)
(* Properties of one Decoder with several calls in flight (Spec).          *)
(***************************************************************************)
\* Every add call has emitted at most once, exactly once when it has
\* completed, and until then its parse or its emission is still to run;
\* listeners were notified by completed calls only, and the packet of a
\* resolved call is the packet of its own frame decoded alone.
C5_Inv ==
    /\ \A c \in 1..Len(calls) :
           /\ calls[c].emits <= 1
           /\ calls[c].emits = 1 <=> calls[c].pc = "emitted"
           /\ calls[c].emits = 0 => calls[c].pc \in {"parsing", "resolved"}
           /\ Resolved(c) => calls[c].result = decodePacket(calls[c].encodedPacket)
    /\ \A n \in notified : n[2] \in 1..Len(calls) /\ calls[n[2]].pc = "emitted"

\* A step never emits for a call that the same step adds, never changes the
\* frame of a call, and never changes the packet of a resolved call.
C5_Step ==
    /\ \A c \in 1..Len(calls') :
           c > Len(calls) => calls'[c].emits = 0 /\ \A l \in Listeners : <<l, c>> \notin notified'
    /\ \A c \in 1..Len(calls) :
           /\ c <= Len(calls')
           /\ calls'[c].encodedPacket = calls[c].encodedPacket
           /\ Resolved(c) => calls'[c].result = calls[c].result

\* C5: each add call produces exactly one 'decoded' notification, emitted
\* only after the add call has returned, carrying the packet of that call's
\* own frame decoded in isolation, in any interleaving of the calls.
C5_CompletionContract == []C5_Inv /\ [][C5_Step]_vars

\* C5 witness: a later call has been delivered to a listener while an
\* earlier call is still parsing its payload.
C5_Witness ==
    /\ Len(calls) >= 2
    /\ calls[1].pc = "parsing"
    /\ calls[2].pc = "emitted"
    /\ calls[2].encodedPacket # calls[1].encodedPacket
    /\ calls[2].i # calls[1].i
    /\ \E l \in Listeners : <<l, 2>> \in notified

\* C8: once destroy() has been called the decoder holds no listeners, and
\* no listener registered before the call is notified afterwards.
C8_DestroyReleasesListeners ==
    [][/\ (destroyed' /\ ~destroyed) => listeners' = {}
       /\ (destroyed /\ listeners' = listeners) => notified' = notified]_vars

=============================================================================
